---- MODULE Spec2Model ----
(***************************************************************************)
(* The JWT authentication middleware of doris (package middleware):        *)
(* JWTWithConfig resolves a JWTConfig once and returns a request handler;  *)
(* the handler extracts a token from the configured source, hands it to    *)
(* the jwt-go verifier together with the derived keyFunc, and admits or    *)
(* rejects the request.                                                    *)
(*                                                                         *)
(* Go strings that the code slices or splits are sequences of one-         *)
(* character strings; strings that are only compared are TLA+ strings.     *)
(***************************************************************************)
EXTENDS Integers, Sequences, FiniteSets, TLC

VARIABLES config, phase, req, ctx

vars == <<config, phase, req, ctx>>

----------------------------------------------------------------------------
(* Values *)

Nil == "nil"

NoErr == [type |-> "nil"]

StatusUnauthorized == 401

StatusBadRequest == 400

TokenExpired == 10400

TokenNotValidYet == 10401

TokenMalformed == 10402

TokenInvalid == 10403

JWTMissing == 10404

TokenRefresh == 10405

JWTMissingErr == [type |-> "JWTMissingErr"]

TokenRefreshErr == [type |-> "TokenRefreshErr"]

TokenMalformedErr == [type |-> "TokenMalformedErr"]

TokenExpiredErr == [type |-> "TokenExpiredErr"]

TokenNotValidYetErr == [type |-> "TokenNotValidYetErr"]

TokenInvalidErr == [type |-> "TokenInvalidErr"]

AlgorithmHS256 == "HS256"

Bearer == <<"B", "e", "a", "r", "e", "r">>

DefaultJWTConfig ==
  [Skipper       |-> "DefaultSkipper",
   SigningMethod |-> AlgorithmHS256,
   ContextKey    |-> "user",
   TokenLookup   |-> <<"header", ":", "Authorization">>,
   AuthScheme    |-> Bearer,
   Claims        |-> "MapClaims"]

----------------------------------------------------------------------------
(* strings.Split on a one-element separator: the parts of s between the    *)
(* occurrences of sep (always at least one part).                          *)

RECURSIVE Split(_, _)
Split(s, sep) ==
  IF \A i \in 1..Len(s) : s[i] # sep
  THEN <<s>>
  ELSE LET i == CHOOSE k \in 1..Len(s) :
                  s[k] = sep /\ \A j \in 1..(k - 1) : s[j] # sep
       IN <<SubSeq(s, 1, i - 1)>> \o Split(SubSeq(s, i + 1, Len(s)), sep)

----------------------------------------------------------------------------
(* The request context (doris.Context).  A request carries one value in    *)
(* one place: src is where ("header", "query", "param", "cookie" or        *)
(* "none"), name the header / parameter / cookie name, value the string.   *)

HeaderGet(r, header) ==
  IF r.src = "header" /\ r.name = header THEN r.value ELSE <<>>

QueryParam(r, param) ==
  IF r.src = "query" /\ r.name = param THEN r.value ELSE <<>>

Param(r, param) ==
  IF r.src = "param" /\ r.name = param THEN r.value ELSE <<>>

Cookie(r, name) ==
  IF r.src = "cookie" /\ r.name = name
  THEN [value |-> r.value, err |-> NoErr]
  ELSE [value |-> <<>>, err |-> [type |-> "ErrNoCookie"]]

NoRet == [kind |-> "none", err |-> NoErr]

NotCalled == [called |-> FALSE, key |-> Nil, err |-> NoErr]

FreshContext ==
  [state        |-> "fresh",
   nextCalls    |-> 0,
   extracted    |-> FALSE,
   ex           |-> [auth |-> <<>>, err |-> NoErr],
   parsed       |-> FALSE,
   keyRet       |-> NotCalled,
   sigChecked   |-> FALSE,
   params       |-> {},
   successCalls |-> 0,
   hook         |-> "none",
   hookArg      |-> NoErr,
   json         |-> {},
   aborted      |-> FALSE,
   ret          |-> NoRet,
   panicked     |-> FALSE]

Next(c) == [c EXCEPT !.nextCalls = @ + 1]

Abort(c) == [c EXCEPT !.aborted = TRUE]

Json(c, status, code) ==
  [c EXCEPT !.json = @ \cup {[status |-> status, code |-> code]}]

SetParam(c, key, token) ==
  [c EXCEPT !.params = {p \in @ : p.key # key} \cup {[key |-> key, token |-> token]}]

Return(c, kind, err) ==
  [c EXCEPT !.ret = [kind |-> kind, err |-> err], !.state = "done"]

Panic(c) == [c EXCEPT !.panicked = TRUE, !.state = "done"]

----------------------------------------------------------------------------
(* Token extractors *)

jwtFromHeader(header, authScheme, r) ==
  LET auth == HeaderGet(r, header)
      l    == Len(authScheme)
  IN IF Len(auth) > l + 1 /\ SubSeq(auth, 1, l) = authScheme
     THEN [auth |-> SubSeq(auth, l + 2, Len(auth)), err |-> NoErr]
     ELSE [auth |-> <<>>, err |-> JWTMissingErr]

jwtFromQuery(param, r) ==
  LET token == QueryParam(r, param)
  IN IF token = <<>>
     THEN [auth |-> <<>>, err |-> JWTMissingErr]
     ELSE [auth |-> token, err |-> NoErr]

jwtFromParam(param, r) ==
  LET token == Param(r, param)
  IN IF token = <<>>
     THEN [auth |-> <<>>, err |-> JWTMissingErr]
     ELSE [auth |-> token, err |-> NoErr]

jwtFromCookie(name, r) ==
  LET ck == Cookie(r, name)
  IN IF ck.err.type # "nil"
     THEN [auth |-> <<>>, err |-> JWTMissingErr]
     ELSE [auth |-> ck.value, err |-> NoErr]

(* extractor as selected at setup from strings.Split(TokenLookup, ":") *)
extractor(cfg, r) ==
  LET parts == Split(cfg.TokenLookup, ":")
  IN CASE parts[1] = <<"query">>  -> jwtFromQuery(parts[2][1], r)
       [] parts[1] = <<"param">>  -> jwtFromParam(parts[2][1], r)
       [] parts[1] = <<"cookie">> -> jwtFromCookie(parts[2][1], r)
       [] OTHER                   -> jwtFromHeader(parts[2][1], cfg.AuthScheme, r)

DefaultSkipper(r) == FALSE

Skipper(cfg, r) ==
  IF cfg.Skipper = "DefaultSkipper" THEN DefaultSkipper(r) ELSE TRUE

----------------------------------------------------------------------------
(* The token verifier (github.com/dgrijalva/jwt-go), as the handler calls  *)
(* it.  A compact token is header "." payload "." signature:               *)
(*   header     "H" names alg HS256, "R" names alg RS256;                  *)
(*   payload    two characters, the auth_type claim ("r" refresh,          *)
(*              "a" access, "n" no such claim, "i" a number) and the time  *)
(*              claims ("v" in force, "e" expired, "f" not yet valid,      *)
(*              "b" both);                                                 *)
(*   signature  "s" made with the key "secret", "k" with "invalid-key".    *)
(* Any other segment fails to decode.                                      *)

NilToken == [isNil |-> TRUE]

DecodeHeader(seg) ==
  CASE seg = <<"H">> -> "HS256"
    [] seg = <<"R">> -> "RS256"
    [] OTHER         -> "undecodable"

AuthTypeOf(ch) ==
  CASE ch = "r" -> "refresh"
    [] ch = "a" -> "access"
    [] ch = "n" -> "absent"
    [] ch = "i" -> "nonstring"
    [] OTHER    -> "undecodable"

TimeFlagsOf(ch) ==
  CASE ch = "v" -> {}
    [] ch = "e" -> {"Expired"}
    [] ch = "f" -> {"NotValidYet"}
    [] ch = "b" -> {"Expired", "NotValidYet"}
    [] OTHER    -> {"undecodable"}

ClaimsDecodable(seg) ==
  /\ Len(seg) = 2
  /\ AuthTypeOf(seg[1]) # "undecodable"
  /\ TimeFlagsOf(seg[2]) # {"undecodable"}

SigningKeyOf(sig) ==
  CASE sig = <<"s">> -> "secret"
    [] sig = <<"k">> -> "invalid-key"
    [] OTHER         -> "none"

(* SigningMethod.Verify: HMAC keys are byte strings, so an RS256 token     *)
(* never verifies under one.                                               *)
Verify(alg, sig, key) == alg = "HS256" /\ SigningKeyOf(sig) = key

ValidationError(flags) == [type |-> "ValidationError", Errors |-> flags]

(* keyFunc without the check of the signing method *)
keyFunc_NoMethodCheck(cfg, t) ==
  [called |-> TRUE, key |-> cfg.SigningKey, err |-> NoErr]

(* the derived key-resolution function, config.keyFunc *)
keyFunc(cfg, t) ==
  IF t.Method # cfg.SigningMethod
  THEN [called |-> TRUE, key |-> Nil, err |-> [type |-> "unexpected jwt signing method"]]
  ELSE [called |-> TRUE, key |-> cfg.SigningKey, err |-> NoErr]

(* jwt.ParseWithClaims(auth, claims, config.keyFunc); shape is the type    *)
(* of the claims object the caller passed in.                              *)
ParseWithClaims(auth, shape, cfg) ==
  LET parts == Split(auth, ".")
      res(token, err, kr, sc) ==
        [token |-> token, err |-> err, keyRet |-> kr, sigChecked |-> sc]
      tok(method, claims, valid) ==
        [isNil |-> FALSE, Raw |-> auth, Method |-> method,
         Claims |-> claims, Valid |-> valid]
      noClaims == [shape |-> "nil", auth_type |-> "absent"]
  IN IF Len(parts) # 3
     THEN res(NilToken, ValidationError({"Malformed"}), NotCalled, FALSE)
     ELSE IF DecodeHeader(parts[1]) = "undecodable"
     THEN res(tok("none", noClaims, FALSE), ValidationError({"Malformed"}),
              NotCalled, FALSE)
     ELSE IF ~ClaimsDecodable(parts[2])
     THEN res(tok("none", [shape |-> shape, auth_type |-> "absent"], FALSE),
              ValidationError({"Malformed"}), NotCalled, FALSE)
     ELSE
       LET alg    == DecodeHeader(parts[1])
           claims == [shape |-> shape, auth_type |-> AuthTypeOf(parts[2][1])]
           t      == tok(alg, claims, FALSE)
           kr     == keyFunc(cfg, t)
       IN IF kr.err.type # "nil"
          THEN res(t, ValidationError({"Unverifiable"}), kr, FALSE)
          ELSE
            LET flags == TimeFlagsOf(parts[2][2]) \cup
                         (IF Verify(alg, parts[3], kr.key)
                          THEN {} ELSE {"SignatureInvalid"})
            IN IF flags = {}
               THEN res(tok(alg, claims, TRUE), NoErr, kr, TRUE)
               ELSE res(t, ValidationError(flags), kr, TRUE)

Parse(auth, cfg) == ParseWithClaims(auth, "MapClaims", cfg)

----------------------------------------------------------------------------
(* JWTWithConfig: the defaults, then the returned handler. *)

ResolveConfig(cfg) ==
  [cfg EXCEPT
     !.Skipper       = IF @ = Nil THEN DefaultJWTConfig.Skipper ELSE @,
     !.SigningMethod = IF @ = "" THEN DefaultJWTConfig.SigningMethod ELSE @,
     !.ContextKey    = IF @ = "" THEN DefaultJWTConfig.ContextKey ELSE @,
     !.Claims        = IF @ = Nil THEN DefaultJWTConfig.Claims ELSE @,
     !.TokenLookup   = IF @ = <<>> THEN DefaultJWTConfig.TokenLookup ELSE @,
     !.AuthScheme    = IF @ = <<>> THEN DefaultJWTConfig.AuthScheme ELSE @]

(* JWTWithConfig without the check of the signing key *)
SetupPanics_NoKeyCheck(cfg) == FALSE

SetupPanics(cfg) == cfg.SigningKey = Nil

(* the classification with the expired flag tested before the malformed   *)
(* flag                                                                    *)
Classify_ExpiredFirst(err) ==
  IF err.type = "ValidationError"
  THEN IF "Expired" \in err.Errors
       THEN [code |-> TokenExpired, errMsg |-> TokenExpiredErr]
       ELSE IF "Malformed" \in err.Errors
       THEN [code |-> TokenMalformed, errMsg |-> TokenMalformedErr]
       ELSE IF "NotValidYet" \in err.Errors
       THEN [code |-> TokenNotValidYet, errMsg |-> TokenNotValidYetErr]
       ELSE [code |-> TokenInvalid, errMsg |-> TokenInvalidErr]
  ELSE [code |-> StatusUnauthorized, errMsg |-> NoErr]

(* the code and message chosen from the error the verifier returned *)
Classify(err) ==
  IF err.type = "ValidationError"
  THEN IF "Malformed" \in err.Errors
       THEN [code |-> TokenMalformed, errMsg |-> TokenMalformedErr]
       ELSE IF "Expired" \in err.Errors
       THEN [code |-> TokenExpired, errMsg |-> TokenExpiredErr]
       ELSE IF "NotValidYet" \in err.Errors
       THEN [code |-> TokenNotValidYet, errMsg |-> TokenNotValidYetErr]
       ELSE [code |-> TokenInvalid, errMsg |-> TokenInvalidErr]
  ELSE [code |-> StatusUnauthorized, errMsg |-> NoErr]

(* the hooks, then the default response, for an error err *)
RejectMissing(cfg, c, err) ==
  IF cfg.ErrorHandler # Nil
  THEN Return([c EXCEPT !.hook = "ErrorHandler", !.hookArg = err], "hook", err)
  ELSE IF cfg.ErrorHandlerWithContext # Nil
  THEN Return([c EXCEPT !.hook = "ErrorHandlerWithContext", !.hookArg = err],
              "hook", err)
  ELSE Return(Abort(Json(c, StatusUnauthorized, StatusUnauthorized)), "err", err)

RejectRefresh(cfg, c) ==
  Return(Abort(Json(c, StatusUnauthorized, TokenRefresh)), "err", TokenRefreshErr)

RejectInvalid(cfg, c, err) ==
  LET cl == Classify(err)
  IN IF cfg.ErrorHandler # Nil
     THEN Return([c EXCEPT !.hook = "ErrorHandler", !.hookArg = err], "hook", err)
     ELSE IF cfg.ErrorHandlerWithContext # Nil
     THEN Return([c EXCEPT !.hook = "ErrorHandlerWithContext", !.hookArg = err],
                 "hook", err)
     ELSE IF cl.errMsg.type = "nil" \/ err.type = "nil"
     THEN Panic(c)
     ELSE Return(Abort(Json(c, StatusUnauthorized, cl.code)), "err", err)

Admit(cfg, c, token) ==
  LET c1 == SetParam(c, cfg.ContextKey, token)
      c2 == IF cfg.SuccessHandler # Nil
            THEN [c1 EXCEPT !.successCalls = @ + 1] ELSE c1
  IN Return(Next(c2), "nil", NoErr)

(* does the check of the auth_type claim panic, and does it find a refresh *)
(* token: claims, ok := token.Claims.(jwt.MapClaims);                      *)
(* ok && claims["auth_type"].(string) == "refresh"                         *)
AuthTypePanics(token) ==
  \/ token.isNil
  \/ /\ token.Claims.shape = "MapClaims"
     /\ token.Claims.auth_type \in {"absent", "nonstring"}

(* the refresh check made only on tokens that verified *)
IsRefresh_OnlyValid(token) ==
  /\ token.Claims.shape = "MapClaims"
  /\ token.Claims.auth_type = "refresh"
  /\ token.Valid

IsRefresh(token) ==
  token.Claims.shape = "MapClaims" /\ token.Claims.auth_type = "refresh"

(* the generic decoder for map claims, else a fresh instance of the        *)
(* configured claims type                                                  *)
parseToken(cfg, auth) ==
  IF cfg.Claims = "MapClaims"
  THEN Parse(auth, cfg)
  ELSE ParseWithClaims(auth, cfg.Claims, cfg)

Handle(cfg, r) ==
  LET c0 == FreshContext
      c1 == IF Skipper(cfg, r) THEN Next(c0) ELSE c0
      ex == extractor(cfg, r)
      c2 == [c1 EXCEPT !.extracted = TRUE, !.ex = ex]
  IN IF ex.err.type # "nil"
     THEN RejectMissing(cfg, c2, ex.err)
     ELSE
       LET pr == parseToken(cfg, ex.auth)
           c3 == [c2 EXCEPT !.parsed = TRUE, !.keyRet = pr.keyRet,
                            !.sigChecked = pr.sigChecked]
       IN IF AuthTypePanics(pr.token)
          THEN Panic(c3)
          ELSE IF IsRefresh(pr.token)
          THEN RejectRefresh(cfg, c3)
          ELSE IF pr.err.type = "nil" /\ pr.token.Valid
          THEN Admit(cfg, c3, pr.token)
          ELSE RejectInvalid(cfg, c3, pr.err)

----------------------------------------------------------------------------
(* Configurations and requests *)

TokenScheme == <<"T", "o", "k", "e", "n">>

LowerBearer == <<"b", "e", "a", "r", "e", "r">>

Configs ==
  [Skipper                 : {Nil, "always"},
   SuccessHandler          : {Nil, "set"},
   ErrorHandler            : {Nil, "set"},
   ErrorHandlerWithContext : {Nil, "set"},
   SigningKey              : {Nil, "secret"},
   SigningMethod           : {"", "hs256", "RS256"},
   ContextKey              : {"", "uid"},
   Claims                  : {Nil, "Custom"},
   TokenLookup             : {<<>>, <<"query", ":", "jwt">>,
                              <<"param", ":", "jwt">>, <<"cookie", ":", "jwt">>},
   AuthScheme              : {<<>>, TokenScheme}]

WellFormed ==
  {<<a, ".", t, v, ".", s>> :
     a \in {"H", "R"}, t \in {"r", "a", "n", "i"},
     v \in {"v", "e", "f", "b"}, s \in {"s", "k"}}

Garbage ==
  {<<>>, <<"x">>, <<"x", ".", "x", ".", "x">>, <<"H", ".", "x", ".", "s">>}

Tokens == WellFormed \cup Garbage

HeaderTokens ==
  Garbage \cup {<<"H", ".", t, "v", ".", "s">> : t \in {"r", "a", "n"}}

HeaderValues ==
  {<<>>} \cup
  {p \o sep \o t : p \in {Bearer, TokenScheme, LowerBearer},
                   sep \in {<<" ">>, <<".">>, <<>>}, t \in HeaderTokens}

NoRequest == [src |-> "none", name |-> "", value |-> <<>>]

Requests ==
  [src : {"header"}, name : {"Authorization"}, value : HeaderValues]
  \cup [src : {"query", "param", "cookie"}, name : {"jwt"}, value : Tokens]
  \cup [src : {"header", "query", "param", "cookie"}, name : {"jwtxyz"},
        value : {<<"H", ".", "a", "v", ".", "s">>}]
  \cup {NoRequest}

----------------------------------------------------------------------------
(* The state machine *)

Init ==
  /\ config \in Configs
  /\ phase = "new"
  /\ req = NoRequest
  /\ ctx = FreshContext

(* JWTWithConfig(config): panics without a signing key, else fills in the  *)
(* defaults and returns the handler.                                       *)
JWTWithConfig ==
  /\ phase = "new"
  /\ IF SetupPanics(config)
     THEN phase' = "panic" /\ UNCHANGED config
     ELSE phase' = "ready" /\ config' = ResolveConfig(config)
  /\ UNCHANGED <<req, ctx>>

(* the returned handler, run on a request with a fresh context *)
Handler ==
  /\ phase = "ready"
  /\ ctx.state = "fresh"
  /\ \E r \in Requests :
       /\ req' = r
       /\ ctx' = Handle(config, r)
  /\ UNCHANGED <<config, phase>>

(* the framework builds a fresh context for the next request *)
NewContext ==
  /\ phase = "ready"
  /\ ctx.state = "done"
  /\ ctx' = FreshContext
  /\ req' = NoRequest
  /\ UNCHANGED <<config, phase>>

Next_ == JWTWithConfig \/ Handler \/ NewContext

Spec == Init /\ [][Next_]_vars

----------------------------------------------------------------------------
(* Properties *)

Handled == phase = "ready" /\ ctx.state = "done"

NoHook == config.ErrorHandler = Nil /\ config.ErrorHandlerWithContext = Nil

Missing == ctx.extracted /\ ctx.ex.err.type = "JWTMissingErr"

(* what the verifier returns for the token the handler extracted *)
Verdict == parseToken(config, ctx.ex.auth)

Extracted == Handled /\ ctx.extracted /\ ctx.ex.err.type = "nil"

(* C1: with no error hook, a request whose extractor yields MissingToken   *)
(* is answered with status 400 (Bad Request), not 401.                     *)
C1_MissingTokenIsBadRequest ==
  (Handled /\ NoHook /\ Missing) =>
     /\ ctx.json # {}
     /\ \A j \in ctx.json : j.status = StatusBadRequest

(* C2: a token the verifier reports valid (and that is not a refresh       *)
(* token) is admitted: the token is stored under contextKey, successHook   *)
(* runs if set, the next handler is called and nil is returned.            *)
C2_ValidTokenAdmitted ==
  (Extracted /\ Verdict.err.type = "nil" /\ Verdict.token.Valid
     /\ Verdict.token.Claims.auth_type # "refresh") =>
     /\ ~ctx.panicked
     /\ ctx.params = {[key |-> config.ContextKey, token |-> Verdict.token]}
     /\ ctx.successCalls = (IF config.SuccessHandler # Nil THEN 1 ELSE 0)
     /\ ctx.nextCalls >= 1
     /\ ctx.ret = [kind |-> "nil", err |-> NoErr]

(* the token the handler extracted carries the claim auth_type = "refresh" *)
CarriesRefresh ==
  /\ Extracted
  /\ ~Verdict.token.isNil
  /\ Verdict.token.Claims.auth_type = "refresh"

RefreshRejected ==
  /\ ctx.json = {[status |-> StatusUnauthorized, code |-> TokenRefresh]}
  /\ ctx.aborted
  /\ ctx.params = {}
  /\ ctx.successCalls = 0
  /\ ctx.nextCalls = (IF Skipper(config, req) THEN 1 ELSE 0)
  /\ ctx.ret = [kind |-> "err", err |-> TokenRefreshErr]

(* C3 as stated: a token carrying auth_type = "refresh" is rejected with   *)
(* code 10405 and status 401 and never admitted, whatever the signature    *)
(* and whatever the configured claims shape.                               *)
C3_RefreshRejectedAnyShape == CarriesRefresh => RefreshRejected

(* C3 amended: when the configured claims shape is the generic map claims, *)
(* a token carrying auth_type = "refresh" is rejected with code 10405 and  *)
(* status 401 and never admitted, whatever the signature.                  *)
C3_RefreshRejectedMapClaims ==
  (CarriesRefresh /\ config.Claims = "MapClaims") => RefreshRejected

C3_Witness ==
  /\ CarriesRefresh
  /\ config.Claims = "MapClaims"
  /\ Verdict.err.type = "ValidationError"
  /\ "SignatureInvalid" \in Verdict.err.Errors
  /\ ctx.json = {[status |-> StatusUnauthorized, code |-> TokenRefresh]}

(* C4: when the skip predicate returns true the handler only passes the    *)
(* request through: no extraction, no verification, nothing stored under   *)
(* contextKey, no rejection response.                                      *)
C4_SkipBypassesVerification ==
  (Handled /\ Skipper(config, req)) =>
     /\ ctx.nextCalls = 1
     /\ ~ctx.extracted
     /\ ~ctx.parsed
     /\ ctx.params = {}
     /\ ctx.json = {}
     /\ ~ctx.aborted

(* C5: every request terminates normally, admitted or rejected, without    *)
(* a panic; an unparseable token is rejected with 401.                     *)
C5_NoPanicPerRequest ==
  Handled =>
     /\ ~ctx.panicked
     /\ ctx.ret.kind \in {"nil", "err", "hook"}
     /\ (Extracted /\ NoHook /\ Verdict.token.isNil) =>
           \E j \in ctx.json : j.status = StatusUnauthorized

Rejected == Handled /\ ~ctx.panicked /\ ctx.ret.kind # "nil"

(* C6: in any rejected state a configured error hook receives the error    *)
(* and the default body is not written; only without a hook is the         *)
(* default body written, the chain halted and the error returned.          *)
C6_RejectionDelegatesToHook ==
  Rejected =>
     IF NoHook
     THEN ctx.json # {} /\ ctx.aborted /\ ctx.ret.kind = "err" /\ ctx.hook = "none"
     ELSE /\ ctx.json = {}
          /\ ctx.ret.kind = "hook"
          /\ ctx.hook = (IF config.ErrorHandler # Nil
                         THEN "ErrorHandler" ELSE "ErrorHandlerWithContext")
          /\ ctx.hookArg = ctx.ret.err

LookupKind == Split(config.TokenLookup, ":")[1]

(* C7: header extraction with scheme S yields a token only if the header   *)
(* value starts with S followed by one space and is longer than len(S)+1,  *)
(* the token being the rest; every other value yields MissingToken.        *)
C7_HeaderNeedsSchemeAndSpace ==
  (Handled /\ LookupKind = <<"header">>) =>
     LET S    == config.AuthScheme
         auth == HeaderGet(req, "Authorization")
         ok   == /\ Len(auth) > Len(S) + 1
                 /\ SubSeq(auth, 1, Len(S) + 1) = S \o <<" ">>
     IN IF ok
        THEN ctx.ex = [auth |-> SubSeq(auth, Len(S) + 2, Len(auth)), err |-> NoErr]
        ELSE ctx.ex = [auth |-> <<>>, err |-> JWTMissingErr]

(* the algorithm named in the header of the token the handler extracted *)
TokenAlg == DecodeHeader(Split(ctx.ex.auth, ".")[1])

(* C8: for a token whose algorithm differs from the configured             *)
(* signingMethod (exact, case-sensitive) keyFunc returns an error and no   *)
(* key, the signature is never compared and the token is not admitted;     *)
(* for a matching algorithm keyFunc returns the configured signing key.    *)
C8_KeyFuncChecksAlgorithm ==
  (Handled /\ ctx.keyRet.called) =>
     IF TokenAlg # config.SigningMethod
     THEN /\ ctx.keyRet.err.type # "nil"
          /\ ctx.keyRet.key = Nil
          /\ ~ctx.sigChecked
          /\ ctx.params = {}
          /\ ctx.ret.kind # "nil"
     ELSE /\ ctx.keyRet.err.type = "nil"
          /\ ctx.keyRet.key = config.SigningKey

(* a correctly signed HS256 token refused because the configured method    *)
(* is spelled "hs256"                                                      *)
C8_Witness ==
  /\ Handled
  /\ ctx.keyRet.called
  /\ TokenAlg = "HS256"
  /\ config.SigningMethod = "hs256"
  /\ SigningKeyOf(Split(ctx.ex.auth, ".")[3]) = config.SigningKey
  /\ ctx.keyRet.err.type # "nil"
  /\ Rejected

(* C9: a configuration without a signing key panics in JWTWithConfig and   *)
(* yields no handler: no request is ever handled with a missing key.       *)
C9_MissingKeyFailsAtSetup ==
  /\ config.SigningKey = Nil =>
        /\ phase \in {"new", "panic"}
        /\ ctx = FreshContext
        /\ req = NoRequest
  /\ phase = "panic" => config.SigningKey = Nil

C9_Witness == phase = "panic" /\ config.SigningKey = Nil

(* C10: every default rejection body carries the code of its category     *)
(* from 10400..10405: Expired 10400, NotValidYet 10401, Malformed 10402,   *)
(* Invalid 10403, Missing 10404, RefreshUsed 10405.                        *)
C10_RejectionCodeBand ==
  (Handled /\ NoHook /\ ctx.json # {}) =>
     \A j \in ctx.json :
        /\ j.code \in TokenExpired..TokenRefresh
        /\ Missing => j.code = JWTMissing
        /\ ctx.ret.err = TokenRefreshErr => j.code = TokenRefresh
        /\ (ctx.parsed /\ ctx.ret.err.type = "ValidationError") =>
              /\ ctx.ret.err.Errors = {"Expired"} => j.code = TokenExpired
              /\ ctx.ret.err.Errors = {"NotValidYet"} => j.code = TokenNotValidYet
              /\ ctx.ret.err.Errors = {"Malformed"} => j.code = TokenMalformed
              /\ ctx.ret.err.Errors \in {{"SignatureInvalid"}, {"Unverifiable"}}
                    => j.code = TokenInvalid

----------------------------------------------------------------------------
(* The classification of a validation error on its own: the verifier's     *)
(* error is an input, a *jwt.ValidationError with any non-empty            *)
(* combination of the library's flags, and the handler runs from the       *)
(* check of the error type to its return.                                  *)

ValidationFlags ==
  {"Malformed", "Unverifiable", "SignatureInvalid", "Audience", "Expired",
   "IssuedAt", "Issuer", "NotValidYet", "Id", "ClaimsInvalid"}

InitClassify ==
  /\ config \in {ResolveConfig(c) : c \in {k \in Configs : ~SetupPanics(k)}}
  /\ phase = "ready"
  /\ req = NoRequest
  /\ ctx = FreshContext

(* the handler from "check err type of jwt" on, for a token that parsed    *)
(* with a validation error                                                 *)
RejectVerdict ==
  /\ phase = "ready"
  /\ ctx.state = "fresh"
  /\ \E flags \in SUBSET ValidationFlags \ {{}} :
       ctx' = RejectInvalid(config,
                            [ctx EXCEPT !.extracted = TRUE, !.parsed = TRUE],
                            ValidationError(flags))
  /\ UNCHANGED <<config, phase, req>>

NextClassify == RejectVerdict \/ NewContext

SpecClassify == InitClassify /\ [][NextClassify]_vars

(* the category that the fixed priority gives a set of flags *)
PriorityCode(flags) ==
  CASE "Malformed" \in flags -> TokenMalformed
    [] "Malformed" \notin flags /\ "Expired" \in flags -> TokenExpired
    [] {"Malformed", "Expired"} \cap flags = {} /\ "NotValidYet" \in flags
         -> TokenNotValidYet
    [] OTHER -> TokenInvalid

====
